---- MODULE Spec2Model ----
(***************************************************************************)
(* A state-machine model of kugou.py: one run of main() from the parsed    *)
(* command line to the process exit.  Every network request of the run is  *)
(* appended to the call log `net`; the reply to a request is chosen by     *)
(* the environment (\E) inside the action that issues it, since the        *)
(* program is single-threaded and every request blocks.                    *)
(*                                                                         *)
(* Texts are modelled as follows.                                          *)
(*  - An input URL is the record [path, query, frag]; query and frag are   *)
(*    the sequences of <<key, value>> pairs that urllib's parse_qsl        *)
(*    splits the component into (keys and values as decoded by it).        *)
(*  - An image URL and a file name are sequences of text pieces, so that   *)
(*    str.replace, str.startswith, `in` and str.split act on the pieces.   *)
(*  - A Python dict is a function whose DOMAIN is the set of keys present. *)
(*  - Optional[str] is a string with None as the absent value; an          *)
(*    Optional text made of pieces is <<>> when None or empty (both falsy) *)
(***************************************************************************)
EXTENDS Integers, Sequences, FiniteSets, TLC

VARIABLES
    url,        \* args.url after strip(): [path, query, frag]
    cover_arg,  \* args.cover: <<>> when not given or empty, else the pieces
    pc,         \* position of main()
    h,          \* the song hash, None until extracted
    album_id,   \* Optional[str]
    page_html,  \* <<>> when no page was scraped, else <<html>>
    mobile,     \* the dict returned by get_mobile_meta
    desktop,    \* the dict returned by get_desktop_meta; EmptyDict for None
    cover_url,  \* chosen cover URL (pieces)
    cover_src,  \* label of the chosen cover, None until chosen
    tags,       \* the ID3 text frames saved by add_basic_id3_tags
    embedded,   \* TRUE once embed_cover has saved the APIC frame
    net,        \* call log: the requests issued so far with their replies, in order
    warnings,   \* the non-fatal failures main() has printed
    exit_code   \* process exit status, -1 while running

vars == << url, cover_arg, pc, h, album_id, page_html, mobile, desktop,
           cover_url, cover_src, tags, embedded, net, warnings, exit_code >>

None == "None"
EmptyDict == [k \in {} |-> None]
Running == -1

\* dict.get(key, default)
Get(d, k, default) == IF k \in DOMAIN d THEN d[k] ELSE default

(***************************************************************************)
(* Input vocabulary                                                        *)
(***************************************************************************)
HashUpper == "ABCDEF00112233445566778899AABBCC"
HashLower == "abcdef00112233445566778899aabbcc"

\* str.upper() on the hash tokens of the vocabulary
Upper(s) == IF s = HashLower THEN HashUpper ELSE s

\* group(1) of re.search(r"/(?:mixsong|kgmixsong)/([A-Za-z0-9]+)\.html", s)
\* for each text piece of the vocabulary, None when the piece has no match
MixsongId(s) ==
    CASE s = "/mixsong/m1.html"   -> "m1"
      [] s = "/kgmixsong/k1.html" -> "k1"
      [] OTHER                    -> None

Paths == {"/song/1.html", "/mixsong/m1.html"}

\* the key=value pairs a query or fragment is built from; a blank value is ""
Pairs == { <<"hash", HashUpper>>, <<"hash", HashLower>>, <<"hash", "">>,
           <<"album_id", "42">>, <<"album_id", "7">>,
           <<"from", "/kgmixsong/k1.html">> }

MaxPairs == 2

PairSeqs == UNION { [1..n -> Pairs] : n \in 0..MaxPairs }

Urls == { [path |-> p, query |-> q, frag |-> f] :
            p \in Paths, q \in PairSeqs, f \in PairSeqs }

(***************************************************************************)
(* URL / hash                                                              *)
(***************************************************************************)
\* urllib.parse.parse_qs: key -> list of its values in order of appearance;
\* pairs with a blank value are dropped (keep_blank_values=False)
parse_qs(pairs) ==
    LET kept(k) == SelectSeq(pairs, LAMBDA p : p[1] = k /\ p[2] # "")
        keys == { pairs[i][1] : i \in { j \in 1..Len(pairs) : pairs[j][2] # "" } }
    IN  [ k \in keys |-> [ i \in 1..Len(kept(k)) |-> kept(k)[i][2] ] ]

\* the pieces of the URL text a regular expression is searched in, in order
UrlText(u) ==
    <<u.path>> \o [ i \in 1..Len(u.query) |-> u.query[i][2] ]
               \o [ i \in 1..Len(u.frag)  |-> u.frag[i][2] ]

\* re.search(r"/(?:mixsong|kgmixsong)/([A-Za-z0-9]+)\.html", url): group(1) of
\* the leftmost match, None when there is none
MixsongSearch(u) ==
    LET t == UrlText(u)
        hits == { i \in 1..Len(t) : MixsongId(t[i]) # None }
    IN  IF hits = {} THEN None
        ELSE MixsongId(t[CHOOSE i \in hits : \A j \in hits : i <= j])

\* What the regular expressions of the page-scrape branch find in a page:
\*   hash      the 32 hex digits captured by "hash":"..." or hash=..., as written
\*   album_id  the digits captured by "album_id": <digits>
\*   album_img the value captured for "album_img" / "union_cover"
ImgGood == << "http://", "imge.kugou.com", "/stdmusic/", "{size}", "/a.jpg" >>
ImgAvatar == << "http://", "singer.kugou.com", "/", "{size}", "/h.jpg" >>
\* an image on another host whose path holds the album server's name
ImgDisguised == << "https://", "evil.example", "/", "imge.kugou.com", "/x.jpg" >>

Htmls == [ hash : {None, HashLower}, album_id : {None, "42"},
           album_img : {<<>>, ImgGood} ]

\* reply to requests.get(url) of the scrape: a transport/HTTP failure or a page
NoPage == [ok |-> FALSE, html |-> [hash |-> None, album_id |-> None, album_img |-> <<>>]]

ScrapeReplies == {NoPage} \cup { [ok |-> TRUE, html |-> x] : x \in Htmls }

\* an entry of the call log: the request and the reply it got
Call(req, reply) == [req |-> req, reply |-> reply]

Raised(reqs) ==
    [raised |-> TRUE, h |-> None, album_id |-> None, page_html |-> <<>>, reqs |-> reqs]

Returned(hh, aid, html, reqs) ==
    [raised |-> FALSE, h |-> hh, album_id |-> aid, page_html |-> html, reqs |-> reqs]

\* the page-scrape branch, lines 91-104
ScrapePage(reply) ==
    IF ~reply.ok THEN Raised(<<Call("scrape", reply)>>)
    ELSE IF reply.html.hash = None THEN Raised(<<Call("scrape", reply)>>)
    ELSE Returned(Upper(reply.html.hash), reply.html.album_id,
                  <<reply.html>>, <<Call("scrape", reply)>>)

\* the query branch, lines 84-88
FromQuery(u) ==
    LET qs == parse_qs(u.query)
    IN  Returned(qs["hash"][1], Get(qs, "album_id", <<None>>)[1], <<>>, <<>>)

\* variant: the fragment hash upper-cased as the page-scrape branch does
FromFragment_Upper(u) ==
    LET frag_qs == parse_qs(u.frag)
    IN  Returned(Upper(frag_qs["hash"][1]), Get(frag_qs, "album_id", <<None>>)[1], <<>>, <<>>)

\* the fragment branch, lines 77-81
FromFragment(u) ==
    LET frag_qs == parse_qs(u.frag)
    IN  Returned(frag_qs["hash"][1], Get(frag_qs, "album_id", <<None>>)[1], <<>>, <<>>)

\* variant: the page is requested whenever the URL carries no hash
parse_ScrapeAnyUrl(u, reply) ==
    IF "hash" \in DOMAIN parse_qs(u.frag) THEN FromFragment(u)
    ELSE IF "hash" \in DOMAIN parse_qs(u.query) THEN FromQuery(u)
    ELSE ScrapePage(reply)

\* variant: the query is looked at before the fragment
parse_QueryFirst(u, reply) ==
    IF "hash" \in DOMAIN parse_qs(u.query) THEN FromQuery(u)
    ELSE IF "hash" \in DOMAIN parse_qs(u.frag) THEN FromFragment(u)
    ELSE IF MixsongSearch(u) # None THEN ScrapePage(reply)
    ELSE Raised(<<>>)

parse_hash_album_from_url_or_page(u, reply) ==
    IF "hash" \in DOMAIN parse_qs(u.frag) THEN FromFragment(u)
    ELSE IF "hash" \in DOMAIN parse_qs(u.query) THEN FromQuery(u)
    ELSE IF MixsongSearch(u) # None THEN ScrapePage(reply)
    ELSE Raised(<<>>)

(***************************************************************************)
(* main(): resolve the hash, lines 274-280                                 *)
(***************************************************************************)
\* the replies to draw from: one for every URL that makes no request
RepliesTo(u) ==
    IF parse_hash_album_from_url_or_page(u, NoPage).reqs = <<>> THEN {NoPage}
    ELSE ScrapeReplies

Extract ==
    /\ pc = "start"
    /\ \E reply \in RepliesTo(url) :
         LET r == parse_hash_album_from_url_or_page(url, reply)
         IN  /\ net' = net \o r.reqs
             /\ h' = r.h
             /\ album_id' = r.album_id
             /\ page_html' = r.page_html
             /\ IF r.raised
                  THEN pc' = "exit" /\ exit_code' = 2
                  ELSE pc' = "mobile" /\ exit_code' = exit_code
    /\ UNCHANGED << url, cover_arg, mobile, desktop, cover_url, cover_src,
                    tags, embedded, warnings >>

(***************************************************************************)
(* Metadata                                                                *)
(***************************************************************************)
\* a dict with the one key k, or without it, for every value of vals
Field(k, vals) == {EmptyDict} \cup { [x \in {k} |-> v] : v \in vals }

StreamUrl == << "https://fs.example/a.mp3" >>

\* JSON objects the mobile API may answer with
MobileDicts ==
    { a @@ b @@ c @@ d :
        a \in Field("url", {<<>>, StreamUrl}),
        b \in Field("fileName", {<<>>, <<"B">>, <<"A", " - ", "T">>}),
        c \in Field("singerName", {<<>>, <<"A">>}),
        d \in Field("imgUrl", {ImgAvatar}) }

\* reply to the mobile API request: a transport failure, an HTTP error status,
\* a body that is not JSON, a JSON value that is not an object, or an object
MobileReplies ==
    { [kind |-> k, data |-> EmptyDict] : k \in {"transport", "http", "badjson", "nondict"} }
    \cup { [kind |-> "dict", data |-> d] : d \in MobileDicts }

\* variant: tests the presence of the key, not the value
NoFreeUrl_KeyOnly(data) == "url" \notin DOMAIN data

\* not data.get("url")
NoFreeUrl(data) == Get(data, "url", <<>>) = <<>>

\* variant: any JSON object is handed back
get_mobile_meta_Unchecked(reply) ==
    IF reply.kind # "dict"
      THEN [raised |-> TRUE, data |-> EmptyDict]
      ELSE [raised |-> FALSE, data |-> reply.data]

get_mobile_meta(reply) ==
    IF reply.kind # "dict" \/ NoFreeUrl(reply.data)
      THEN [raised |-> TRUE, data |-> EmptyDict]
      ELSE [raised |-> FALSE, data |-> reply.data]

\* main(), lines 282-287
MobileMeta ==
    /\ pc = "mobile"
    /\ \E reply \in MobileReplies :
         LET r == get_mobile_meta(reply)
         IN  /\ net' = Append(net, Call("mobile", reply))
             /\ IF r.raised
                  THEN pc' = "exit" /\ exit_code' = 3 /\ mobile' = mobile
                  ELSE pc' = "desktop" /\ exit_code' = exit_code /\ mobile' = r.data
    /\ UNCHANGED << url, cover_arg, h, album_id, page_html, desktop, cover_url,
                    cover_src, tags, embedded, warnings >>

CoverKeys == << "album_img", "union_cover", "img", "imgUrl" >>

\* payload["data"] objects of the desktop API
DesktopDicts ==
    { t @@ a @@ b @@ c @@ d :
        t \in { [x \in {"song_name"} |-> <<"A">>] },
        a \in Field("album_img", {ImgAvatar, ImgGood}),
        b \in Field("union_cover", {ImgAvatar, ImgGood}),
        c \in Field("img", {ImgGood}),
        d \in Field("imgUrl", {ImgAvatar}) }

\* reply to the desktop API request; a JSON object is [status, data] with
\* data = <<>> when the key is missing, else <<payload["data"]>>
DesktopReplies ==
    { [kind |-> k, status |-> 0, data |-> <<>>] : k \in {"transport", "http", "badjson", "nondict"} }
    \cup { [kind |-> "dict", status |-> 1, data |-> d] :
             d \in {<<>>} \cup { <<x>> : x \in DesktopDicts } }
    \cup { [kind |-> "dict", status |-> 0, data |-> d] :
             d \in {<<>>, << [x \in {"song_name"} |-> <<"A">>] >>} }

\* variant: the status field is not looked at
get_desktop_meta_NoStatus(aid, reply) ==
    IF aid = None \/ aid = ""
      THEN [raised |-> FALSE, data |-> EmptyDict, reqs |-> <<>>]
    ELSE IF reply.kind # "dict" \/ reply.data = <<>>
      THEN [raised |-> TRUE, data |-> EmptyDict, reqs |-> <<Call("desktop", reply)>>]
    ELSE [raised |-> FALSE, data |-> reply.data[1], reqs |-> <<Call("desktop", reply)>>]

\* returns None (EmptyDict here) without a request when album_id is falsy
get_desktop_meta(aid, reply) ==
    IF aid = None \/ aid = ""
      THEN [raised |-> FALSE, data |-> EmptyDict, reqs |-> <<>>]
    ELSE IF reply.kind # "dict" \/ reply.status # 1 \/ reply.data = <<>>
      THEN [raised |-> TRUE, data |-> EmptyDict, reqs |-> <<Call("desktop", reply)>>]
    ELSE [raised |-> FALSE, data |-> reply.data[1], reqs |-> <<Call("desktop", reply)>>]

\* main(), lines 289-294
DesktopMeta ==
    /\ pc = "desktop"
    /\ \E reply \in DesktopReplies :
         LET r == get_desktop_meta(album_id, reply)
         IN  /\ net' = net \o r.reqs
             /\ desktop' = r.data
             /\ warnings' = IF r.raised THEN warnings \cup {"desktop"} ELSE warnings
    /\ pc' = "cover"
    /\ UNCHANGED << url, cover_arg, h, album_id, page_html, mobile, cover_url,
                    cover_src, tags, embedded, exit_code >>

(***************************************************************************)
(* Cover                                                                   *)
(***************************************************************************)
\* variant: the size placeholder is left in place
ReplaceSize_Keep(u) == u

\* u.replace("{size}", "1000")
ReplaceSize(u) == [ i \in 1..Len(u) |-> IF u[i] = "{size}" THEN "1000" ELSE u[i] ]

\* if u.startswith("http://"): u = "https://" + u[7:]
UpgradeScheme(u) ==
    IF Len(u) > 0 /\ u[1] = "http://" THEN <<"https://">> \o Tail(u) ELSE u

\* variant: the scheme is left as given
_normalize_img_KeepScheme(u) == IF u = <<>> THEN <<>> ELSE ReplaceSize(u)

_normalize_img(u) == IF u = <<>> THEN <<>> ELSE UpgradeScheme(ReplaceSize(u))

\* "imge.kugou.com" in u
OnAlbumServer(u) == \E i \in 1..Len(u) : u[i] = "imge.kugou.com"

\* reply to a page request of fetch_og_image: a failure (tag <<>>), or a page
\* whose og:image meta tag has the content `tag`
OgReplies == { [ok |-> FALSE, tag |-> <<>>] }
             \cup { [ok |-> TRUE, tag |-> t] :
                      t \in {ImgAvatar, ImgGood, ImgDisguised} }

\* the value returned, <<>> for None
fetch_og_image(reply) ==
    IF reply.ok /\ reply.tag # <<>> THEN UpgradeScheme(ReplaceSize(reply.tag)) ELSE <<>>

\* u and "imge.kugou.com" in u
Validated(u) == u # <<>> /\ OnAlbumServer(u)

\* the album_img / union_cover value of the page JSON, normalized; <<>> for
\* None.  No caller: choose_best_cover receives page_html and never reads it
extract_album_img_from_page_json(html) ==
    IF html.album_img # <<>> THEN _normalize_img(html.album_img) ELSE <<>>

\* lines 171-179: the first key of CoverKeys whose value is a non-empty string
\* on the album server once normalized; 0 when there is none
DesktopHit(d) ==
    LET ok(i) == /\ CoverKeys[i] \in DOMAIN d
                 /\ d[CoverKeys[i]] # <<>>
                 /\ OnAlbumServer(UpgradeScheme(ReplaceSize(d[CoverKeys[i]])))
        hits == { i \in 1..Len(CoverKeys) : ok(i) }
    IN  IF hits = {} THEN 0 ELSE CHOOSE i \in hits : \A j \in hits : i <= j

\* main() lines 296-301 and choose_best_cover lines 170-179
ChooseCover ==
    /\ pc = "cover"
    /\ IF cover_arg # <<>>
         THEN /\ cover_url' = _normalize_img(cover_arg)
              /\ cover_src' = "override"
              /\ pc' = "download"
         ELSE IF DesktopHit(desktop) # 0
           THEN /\ cover_url' = UpgradeScheme(ReplaceSize(desktop[CoverKeys[DesktopHit(desktop)]]))
                /\ cover_src' = "desktop:" \o CoverKeys[DesktopHit(desktop)]
                /\ pc' = "download"
           ELSE /\ UNCHANGED << cover_url, cover_src >>
                /\ pc' = "og_page"
    /\ UNCHANGED << url, cover_arg, h, album_id, page_html, mobile, desktop,
                    tags, embedded, net, warnings, exit_code >>

\* variant: a validated candidate is kept but the chain goes on
ChainStep_GoOn(u, src, next) ==
    /\ IF Validated(u)
         THEN cover_url' = u /\ cover_src' = src
         ELSE UNCHANGED << cover_url, cover_src >>
    /\ pc' = next

\* one step of the chain: the candidate u of the step labelled src is returned
\* when validated, else the chain goes on at position next
ChainStep(u, src, next) ==
    IF Validated(u)
      THEN cover_url' = u /\ cover_src' = src /\ pc' = "download"
      ELSE UNCHANGED << cover_url, cover_src >> /\ pc' = next

\* lines 181-184: og:image of the page at the input URL
PageOgImage ==
    /\ pc = "og_page"
    /\ \E reply \in OgReplies :
         /\ net' = Append(net, Call("og:page", reply))
         /\ ChainStep(fetch_og_image(reply), "page:og:image", "og_share")
    /\ UNCHANGED << url, cover_arg, h, album_id, page_html, mobile, desktop,
                    tags, embedded, warnings, exit_code >>

\* lines 186-189 and fetch_mobile_mixsong_og_image: the mobile share page, which
\* is requested only when the input URL holds a mixsong id
ShareOgImage ==
    /\ pc = "og_share"
    /\ IF MixsongSearch(url) = None
         THEN /\ net' = net
              /\ ChainStep(<<>>, "mobile_share:og:image", "og_album")
         ELSE \E reply \in OgReplies :
                /\ net' = Append(net, Call("og:share", reply))
                /\ ChainStep(fetch_og_image(reply), "mobile_share:og:image", "og_album")
    /\ UNCHANGED << url, cover_arg, h, album_id, page_html, mobile, desktop,
                    tags, embedded, warnings, exit_code >>

\* lines 191-199, first album URL (www.kugou.com/album/<album_id>.html)
AlbumOgImage ==
    /\ pc = "og_album"
    /\ IF album_id = None \/ album_id = ""
         THEN /\ net' = net
              /\ UNCHANGED << cover_url, cover_src >>
              /\ pc' = "avatar"
         ELSE \E reply \in OgReplies :
                /\ net' = Append(net, Call("og:album", reply))
                /\ ChainStep(fetch_og_image(reply), "album_page:og:image", "og_malbum")
    /\ UNCHANGED << url, cover_arg, h, album_id, page_html, mobile, desktop,
                    tags, embedded, warnings, exit_code >>

\* lines 193-199, second album URL (m.kugou.com/share/album/<album_id>.html)
MobileAlbumOgImage ==
    /\ pc = "og_malbum"
    /\ \E reply \in OgReplies :
         /\ net' = Append(net, Call("og:malbum", reply))
         /\ ChainStep(fetch_og_image(reply), "album_page:og:image", "avatar")
    /\ UNCHANGED << url, cover_arg, h, album_id, page_html, mobile, desktop,
                    tags, embedded, warnings, exit_code >>

\* variant: the avatar goes through the album-server test like the other steps
MobileAvatar_Checked ==
    /\ pc = "avatar"
    /\ cover_url' = IF Validated(UpgradeScheme(ReplaceSize(Get(mobile, "imgUrl", <<>>))))
                      THEN UpgradeScheme(ReplaceSize(Get(mobile, "imgUrl", <<>>)))
                      ELSE <<>>
    /\ cover_src' = "mobile:imgUrl"
    /\ pc' = "download"
    /\ UNCHANGED << url, cover_arg, h, album_id, page_html, mobile, desktop,
                    tags, embedded, net, warnings, exit_code >>

\* lines 201-206: the mobile avatar, taken without the album-server test
MobileAvatar ==
    /\ pc = "avatar"
    /\ cover_url' = UpgradeScheme(ReplaceSize(Get(mobile, "imgUrl", <<>>)))
    /\ cover_src' = "mobile:imgUrl"
    /\ pc' = "download"
    /\ UNCHANGED << url, cover_arg, h, album_id, page_html, mobile, desktop,
                    tags, embedded, net, warnings, exit_code >>

(***************************************************************************)
(* Download and tagging                                                    *)
(***************************************************************************)
\* variant: a failed audio download is reported and the run goes on to tagging
DownloadAudio_GoOn ==
    /\ pc = "download"
    /\ IF Get(mobile, "url", <<>>) = <<>>
         THEN /\ net' = net
              /\ pc' = "exit"
              /\ exit_code' = 4
         ELSE \E ok \in BOOLEAN :
                /\ net' = Append(net, Call("audio", [ok |-> ok]))
                /\ pc' = "tag" /\ exit_code' = exit_code
    /\ UNCHANGED << url, cover_arg, h, album_id, page_html, mobile, desktop,
                    cover_url, cover_src, tags, embedded, warnings >>

\* main() lines 303-317; download_file raises on a transport or HTTP failure
DownloadAudio ==
    /\ pc = "download"
    /\ IF Get(mobile, "url", <<>>) = <<>>
         THEN /\ net' = net
              /\ pc' = "exit"
              /\ exit_code' = 4
         ELSE \E ok \in BOOLEAN :
                /\ net' = Append(net, Call("audio", [ok |-> ok]))
                /\ IF ok THEN pc' = "tag" /\ exit_code' = exit_code
                         ELSE pc' = "exit" /\ exit_code' = 5
    /\ UNCHANGED << url, cover_arg, h, album_id, page_html, mobile, desktop,
                    cover_url, cover_src, tags, embedded, warnings >>

\* variant: the text is split at the last " - "
TitleOf_LastSeparator(file_name) ==
    LET seps == { i \in 1..Len(file_name) : file_name[i] = " - " }
    IN  IF seps = {} THEN file_name
        ELSE SubSeq(file_name, (CHOOSE i \in seps : \A j \in seps : i >= j) + 1,
                    Len(file_name))

\* file_name.split(" - ", 1)[-1] if " - " in file_name else file_name
TitleOf(file_name) ==
    LET seps == { i \in 1..Len(file_name) : file_name[i] = " - " }
    IN  IF seps = {} THEN file_name
        ELSE SubSeq(file_name, (CHOOSE i \in seps : \A j \in seps : i <= j) + 1,
                    Len(file_name))

\* variant: a missing key gives an empty text
add_basic_id3_tags_NoDefault(mobile_data) ==
    [ title  |-> TitleOf(Get(mobile_data, "fileName", <<>>)),
      artist |-> Get(mobile_data, "singerName", <<>>) ]

\* variant: the title is the text before the first " - "
add_basic_id3_tags_LeftPart(mobile_data) ==
    [ title  |-> LET f == Get(mobile_data, "fileName", <<"Unknown">>)
                     seps == { i \in 1..Len(f) : f[i] = " - " }
                 IN  IF seps = {} THEN f
                     ELSE SubSeq(f, 1, (CHOOSE i \in seps : \A j \in seps : i <= j) - 1),
      artist |-> Get(mobile_data, "singerName", <<"Unknown">>) ]

\* the frames add_basic_id3_tags writes for the mobile record
add_basic_id3_tags(mobile_data) ==
    [ title  |-> TitleOf(Get(mobile_data, "fileName", <<"Unknown">>)),
      artist |-> Get(mobile_data, "singerName", <<"Unknown">>) ]

\* main() lines 319-325 (out_path always ends in ".mp3"); EasyID3 may raise,
\* which is caught and printed
TagBasic ==
    /\ pc = "tag"
    /\ \E ok \in BOOLEAN :
         IF ok THEN tags' = add_basic_id3_tags(mobile) /\ warnings' = warnings
               ELSE tags' = tags /\ warnings' = warnings \cup {"tag_basic"}
    /\ pc' = "embed"
    /\ UNCHANGED << url, cover_arg, h, album_id, page_html, mobile, desktop,
                    cover_url, cover_src, embedded, net, exit_code >>

\* variant: a failure of embed_cover is not caught and ends the process
EmbedCover_Uncaught ==
    /\ pc = "embed"
    /\ IF cover_url = <<>>
         THEN UNCHANGED << net, embedded, warnings >> /\ exit_code' = 0
         ELSE \E ok \in BOOLEAN :
                /\ net' = Append(net, Call("cover", [ok |-> ok]))
                /\ warnings' = warnings
                /\ IF ok THEN embedded' = TRUE /\ exit_code' = 0
                         ELSE embedded' = embedded /\ exit_code' = 1
    /\ pc' = "exit"
    /\ UNCHANGED << url, cover_arg, h, album_id, page_html, mobile, desktop,
                    cover_url, cover_src, tags >>

\* variant: a failed image download is tried a second time
EmbedCover_Retry ==
    /\ pc = "embed"
    /\ IF cover_url = <<>>
         THEN UNCHANGED << net, embedded, warnings >>
         ELSE \E ok \in BOOLEAN, again \in BOOLEAN :
                /\ net' = IF ok THEN Append(net, Call("cover", [ok |-> ok]))
                          ELSE net \o << Call("cover", [ok |-> ok]),
                                         Call("cover", [ok |-> again]) >>
                /\ IF ok \/ again THEN embedded' = TRUE /\ warnings' = warnings
                         ELSE embedded' = embedded /\ warnings' = warnings \cup {"tag_cover"}
    /\ pc' = "exit"
    /\ exit_code' = 0
    /\ UNCHANGED << url, cover_arg, h, album_id, page_html, mobile, desktop,
                    cover_url, cover_src, tags >>

\* main() lines 326-332 and embed_cover; the image download or the tag write
\* may raise, which is caught and printed; then main() returns
EmbedCover ==
    /\ pc = "embed"
    /\ IF cover_url = <<>>
         THEN UNCHANGED << net, embedded, warnings >>
         ELSE \E ok \in BOOLEAN :
                /\ net' = Append(net, Call("cover", [ok |-> ok]))
                /\ IF ok THEN embedded' = TRUE /\ warnings' = warnings
                         ELSE embedded' = embedded /\ warnings' = warnings \cup {"tag_cover"}
    /\ pc' = "exit"
    /\ exit_code' = 0
    /\ UNCHANGED << url, cover_arg, h, album_id, page_html, mobile, desktop,
                    cover_url, cover_src, tags >>

InitRest ==
    /\ pc = "start"
    /\ h = None
    /\ album_id = None
    /\ page_html = <<>>
    /\ mobile = EmptyDict
    /\ desktop = EmptyDict
    /\ cover_url = <<>>
    /\ cover_src = None
    /\ tags = EmptyDict
    /\ embedded = FALSE
    /\ net = <<>>
    /\ warnings = {}
    /\ exit_code = Running

\* Identifier extraction over every URL of the vocabulary
InitExtract ==
    /\ url \in Urls
    /\ cover_arg = <<>>
    /\ InitRest

NextExtract == Extract

SpecExtract == InitExtract /\ [][NextExtract]_vars

(***************************************************************************)
(* Whole runs of main()                                                    *)
(***************************************************************************)
\* --cover value given on the command line
OverrideImg == << "http://", "img.example", "/", "{size}", "/a.jpg" >>

\* one URL of each shape main() distinguishes
MainUrls ==
    { [path |-> "/song/1.html", query |-> <<>>,
       frag |-> << <<"hash", HashUpper>>, <<"album_id", "42">> >>],
      [path |-> "/song/1.html", query |-> << <<"hash", HashLower>> >>, frag |-> <<>>],
      [path |-> "/mixsong/m1.html", query |-> <<>>, frag |-> <<>>],
      [path |-> "/song/1.html", query |-> <<>>, frag |-> <<>>],
      [path |-> "/mixsong/m1.html",
       query |-> << <<"hash", HashLower>>, <<"album_id", "7">> >>,
       frag |-> << <<"hash", HashUpper>> >>] }

Init ==
    /\ url \in MainUrls
    /\ cover_arg \in {<<>>, OverrideImg}
    /\ InitRest

Next ==
    \/ Extract
    \/ MobileMeta
    \/ DesktopMeta
    \/ ChooseCover
    \/ PageOgImage
    \/ ShareOgImage
    \/ AlbumOgImage
    \/ MobileAlbumOgImage
    \/ MobileAvatar
    \/ DownloadAudio
    \/ TagBasic
    \/ EmbedCover

Spec == Init /\ [][Next]_vars

\* the interpreter runs main() on: a step that can be taken is taken
FairSpec == Init /\ [][Next]_vars /\ WF_vars(Next)

(***************************************************************************)
(* Title derivation over every fileName                                    *)
(***************************************************************************)
\* pieces of a fileName: two words and the separator
NamePieces == {"A", "T", " - "}

MaxNameLen == 5

FileNames == UNION { [1..n -> NamePieces] : n \in 0..MaxNameLen }

\* a URL with its hash in the query and no album id: no page is scraped and
\* the desktop API is not called
TitleUrl == [path |-> "/song/1.html", query |-> << <<"hash", HashLower>> >>, frag |-> <<>>]

\* main() at line 319, the audio saved, for a mobile record with any fileName
InitTitle ==
    /\ url = TitleUrl
    /\ cover_arg = OverrideImg
    /\ pc = "tag"
    /\ h = parse_hash_album_from_url_or_page(TitleUrl, NoPage).h
    /\ album_id = parse_hash_album_from_url_or_page(TitleUrl, NoPage).album_id
    /\ page_html = <<>>
    /\ \E f \in FileNames :
         /\ mobile = [k \in {"url", "fileName"} |-> IF k = "url" THEN StreamUrl ELSE f]
         /\ net = << Call("mobile", [kind |-> "dict", data |-> mobile]),
                     Call("audio", [ok |-> TRUE]) >>
    /\ desktop = EmptyDict
    /\ cover_url = _normalize_img(OverrideImg)
    /\ cover_src = "override"
    /\ tags = EmptyDict
    /\ embedded = FALSE
    /\ warnings = {}
    /\ exit_code = Running

NextTitle == TagBasic

SpecTitle == InitTitle /\ [][NextTitle]_vars

(***************************************************************************)
(* Properties                                                              *)
(***************************************************************************)
\* the component holds a key=value pair for k whose value is not blank
HasKey(pairs, k) == \E i \in 1..Len(pairs) : pairs[i][1] = k /\ pairs[i][2] # ""

\* the value of the first such pair
FirstValue(pairs, k) ==
    LET is == { i \in 1..Len(pairs) : pairs[i][1] = k /\ pairs[i][2] # "" }
    IN  pairs[CHOOSE i \in is : \A j \in is : i <= j][2]

FirstOrNone(pairs, k) == IF HasKey(pairs, k) THEN FirstValue(pairs, k) ELSE None

\* some piece of the URL text has the track-page form
TrackPageText ==
    \/ MixsongId(url.path) # None
    \/ \E i \in 1..Len(url.query) : MixsongId(url.query[i][2]) # None
    \/ \E i \in 1..Len(url.frag) : MixsongId(url.frag[i][2]) # None

Requested(r) == \E i \in 1..Len(net) : net[i].req = r

CoverChainReqs == {"og:page", "og:share", "og:album", "og:malbum"}

NoCoverChainRequest == \A i \in 1..Len(net) : net[i].req \notin CoverChainReqs

\* C1: once extraction has run on a URL whose fragment holds a hash key, the
\* hash is the first hash value of the fragment, unchanged in case, the album id
\* is the fragment's (None without one), extraction has not failed and no
\* request was issued, whatever the query and the path hold.
C1_FragmentHashAsWritten ==
    (pc # "start" /\ HasKey(url.frag, "hash")) =>
        /\ pc = "mobile" /\ exit_code = Running
        /\ h = FirstValue(url.frag, "hash")
        /\ album_id = FirstOrNone(url.frag, "album_id")
        /\ page_html = <<>>
        /\ net = <<>>

\* C1 witness: a lower-case fragment hash returned as written although the
\* query holds another hash and the URL has the track-page form
C1_Witness ==
    /\ pc = "mobile"
    /\ HasKey(url.frag, "hash") /\ h = HashLower
    /\ HasKey(url.query, "hash") /\ FirstValue(url.query, "hash") = HashUpper
    /\ MixsongId(url.path) # None

\* C2: once extraction has run on a URL with no hash key in fragment and query
\* and no text of the track-page form, the run has ended with exit code 2 and
\* no request was issued.
C2_NoHashNoPageFails ==
    (pc # "start" /\ ~HasKey(url.frag, "hash") /\ ~HasKey(url.query, "hash")
        /\ ~TrackPageText) =>
        /\ pc = "exit" /\ exit_code = 2
        /\ net = <<>>
        /\ h = None

\* C2 witness: such a run, on a URL whose query has a blank hash and an album id
C2_Witness ==
    /\ pc = "exit" /\ exit_code = 2 /\ net = <<>>
    /\ ~TrackPageText
    /\ \E i \in 1..Len(url.query) : url.query[i] = <<"hash", "">>
    /\ HasKey(url.frag, "album_id")

\* C3: fragment before query before page scrape: with a hash in the fragment
\* the fragment's hash and album id are returned; else with a hash in the query
\* the query's are; the page is requested only when neither holds a hash, and
\* then at most once.
C3_StrictPriority ==
    /\ (pc # "start" /\ HasKey(url.frag, "hash") /\ HasKey(url.query, "hash")) =>
          /\ h = FirstValue(url.frag, "hash")
          /\ album_id = FirstOrNone(url.frag, "album_id")
    /\ (pc # "start" /\ ~HasKey(url.frag, "hash") /\ HasKey(url.query, "hash")) =>
          /\ h = FirstValue(url.query, "hash")
          /\ album_id = FirstOrNone(url.query, "album_id")
          /\ net = <<>>
    /\ Requested("scrape") =>
          /\ ~HasKey(url.frag, "hash") /\ ~HasKey(url.query, "hash")
          /\ TrackPageText
          /\ Len(net) = 1
    /\ (pc # "start" /\ (HasKey(url.frag, "hash") \/ HasKey(url.query, "hash"))) =>
          ~Requested("scrape")

\* C3 witness: fragment and query disagree on hash and album id, the URL has the
\* track-page form, and the fragment's values are the ones returned
C3_Witness ==
    /\ pc = "mobile" /\ net = <<>>
    /\ MixsongId(url.path) # None
    /\ HasKey(url.frag, "hash") /\ HasKey(url.query, "hash")
    /\ FirstValue(url.frag, "hash") # FirstValue(url.query, "hash")
    /\ HasKey(url.frag, "album_id") /\ HasKey(url.query, "album_id")
    /\ FirstValue(url.frag, "album_id") # FirstValue(url.query, "album_id")
    /\ h = FirstValue(url.frag, "hash")
    /\ album_id = FirstValue(url.frag, "album_id")

\* the four ways the mobile API reply makes the Primary adapter fail
PrimaryReplyFails(reply) ==
    \/ reply.kind \in {"transport", "http", "badjson", "nondict"}
    \/ "url" \notin DOMAIN reply.data
    \/ reply.data["url"] = <<>>

\* C4: after a failing reply to the Primary request the run has ended with exit
\* code 3, and the call log holds no Secondary request, no cover request and
\* no audio download.
C4_PrimaryFailureFatal ==
    \A i \in 1..Len(net) :
        (net[i].req = "mobile" /\ PrimaryReplyFails(net[i].reply)) =>
            /\ pc = "exit" /\ exit_code = 3
            /\ i = Len(net)
            /\ \A j \in 1..Len(net) :
                 net[j].req \notin {"desktop", "audio", "cover"} \cup CoverChainReqs

\* C4 witness: the reply is a JSON object whose url is present but empty
C4_Witness ==
    /\ exit_code = 3
    /\ Len(net) > 0
    /\ net[Len(net)].req = "mobile"
    /\ net[Len(net)].reply.kind = "dict"
    /\ "url" \in DOMAIN net[Len(net)].reply.data
    /\ net[Len(net)].reply.data["url"] = <<>>

\* the five ways the desktop API reply makes the Secondary adapter fail
SecondaryReplyFails(reply) ==
    \/ reply.kind \in {"transport", "http", "badjson", "nondict"}
    \/ reply.status # 1
    \/ reply.data = <<>>

DesktopLabels == { "desktop:" \o CoverKeys[i] : i \in 1..Len(CoverKeys) }

\* C5: after a failing reply to the Secondary request the failure has been
\* printed as a warning, the Secondary record is absent, the cover does not
\* come from it, and the run ends only after the audio download was attempted
\* (with the download-failure code or with success).
C5_SecondaryFailureNonFatal ==
    \A i \in 1..Len(net) :
        (net[i].req = "desktop" /\ SecondaryReplyFails(net[i].reply)) =>
            /\ "desktop" \in warnings
            /\ desktop = EmptyDict
            /\ cover_src \notin DesktopLabels
            /\ pc # "desktop"
            /\ pc = "exit" => (exit_code \in {0, 5} /\ \E j \in (i+1)..Len(net) : net[j].req = "audio")
            /\ pc # "exit" => exit_code = Running

\* C5 witness: status 0 from the desktop API, and the run still ends in success
\* with a cover embedded
C5_Witness ==
    /\ pc = "exit" /\ exit_code = 0 /\ embedded
    /\ \E i \in 1..Len(net) :
         /\ net[i].req = "desktop"
         /\ net[i].reply.kind = "dict" /\ net[i].reply.status = 0

\* the run has ended in success and add_basic_id3_tags has saved its frames
TaggedSuccess == pc = "exit" /\ exit_code = 0 /\ DOMAIN tags = {"title", "artist"}

\* the Secondary record holds a title
SecondaryHasTitle == "song_name" \in DOMAIN desktop /\ desktop["song_name"] # <<>>

\* the Primary record holds a non-empty combined name
PrimaryHasName == "fileName" \in DOMAIN mobile /\ mobile["fileName"] # <<>>

\* the title of the Primary record: the text after the first " - " of its
\* combined name, the whole name without one
PrimaryTitle ==
    IF \E i \in 1..Len(mobile["fileName"]) : mobile["fileName"][i] = " - "
      THEN LET i == CHOOSE k \in 1..Len(mobile["fileName"]) :
                      /\ mobile["fileName"][k] = " - "
                      /\ \A m \in 1..(k-1) : mobile["fileName"][m] # " - "
           IN  [ n \in 1..(Len(mobile["fileName"]) - i) |-> mobile["fileName"][i + n] ]
      ELSE mobile["fileName"]

\* C6 as stated: the title written is the Secondary's title when there is one,
\* else the Primary's when there is one, else "Unknown" when the Primary record
\* has no combined name at all.
C6_TitlePrecedence ==
    TaggedSuccess =>
        IF SecondaryHasTitle THEN tags["title"] = desktop["song_name"]
        ELSE IF PrimaryHasName THEN tags["title"] = PrimaryTitle
        ELSE "fileName" \notin DOMAIN mobile => tags["title"] = <<"Unknown">>

\* C6 amended: the title written comes from the Primary record alone, whatever
\* the Secondary record holds: the Primary's title when the record has the
\* combined-name key (empty when the name is), "Unknown" when it has not.
C6_TitleFromPrimaryOnly ==
    TaggedSuccess =>
        /\ "fileName" \in DOMAIN mobile => tags["title"] = PrimaryTitle
        /\ "fileName" \notin DOMAIN mobile => tags["title"] = <<"Unknown">>
        /\ (SecondaryHasTitle /\ Get(mobile, "fileName", <<>>) = <<"B">>)
              => tags["title"] = <<"B">>

\* C6 witness: Secondary title "A", Primary title "B", and "B" is written
C6_Witness ==
    /\ TaggedSuccess
    /\ SecondaryHasTitle /\ desktop["song_name"] = <<"A">>
    /\ PrimaryHasName /\ mobile["fileName"] = <<"B">>
    /\ tags["title"] = <<"B">>

AudioAttempted == Requested("audio")

\* C7: whenever the audio download has been attempted or the run has ended in
\* success, and in every state after the Primary adapter returned, the stream
\* URL of the Primary record is non-empty; the run never ends with exit code 4.
C7_StreamUrlNonEmpty ==
    /\ (AudioAttempted \/ pc \in {"tag", "embed"} \/ (pc = "exit" /\ exit_code = 0)) =>
          ("url" \in DOMAIN mobile /\ mobile["url"] # <<>>)
    /\ pc \in {"desktop", "cover", "og_page", "og_share", "og_album", "og_malbum",
               "avatar", "download"} =>
          ("url" \in DOMAIN mobile /\ mobile["url"] # <<>>)
    /\ exit_code # 4

\* C7 witness: a successful run whose audio was downloaded from the stream URL
C7_Witness ==
    /\ pc = "exit" /\ exit_code = 0
    /\ AudioAttempted
    /\ mobile["url"] = StreamUrl

\* C8 as stated: on a successful run the title and the artist written are
\* never empty.
C8_TitleArtistNonEmpty ==
    TaggedSuccess => (tags["title"] # <<>> /\ tags["artist"] # <<>>)

\* a cover field of the Secondary record that is a validated candidate
ValidSecondaryField(k) ==
    /\ k \in DOMAIN desktop
    /\ desktop[k] # <<>>
    /\ \E i \in 1..Len(desktop[k]) : desktop[k][i] = "imge.kugou.com"

\* the reply to a page request carries a validated candidate
ValidOgReply(reply) ==
    reply.ok /\ \E i \in 1..Len(reply.tag) : reply.tag[i] = "imge.kugou.com"

ChainRank(r) ==
    CASE r = "og:page" -> 1 [] r = "og:share" -> 2 [] r = "og:album" -> 3
      [] r = "og:malbum" -> 4 [] OTHER -> 0

CoverResolved == pc \in {"download", "tag", "embed"} \/ (pc = "exit" /\ exit_code \in {0, 5})

\* C9: a request of the cover chain is issued only when the Secondary record
\* has no validated cover field and no earlier request of the chain got a
\* validated candidate, and the requests follow the order of the chain; when
\* a Secondary cover field is validated (and no override is given) the cover
\* is that field under a desktop label and the chain issued no request.
C9_CoverChainShortCircuits ==
    /\ \A i \in 1..Len(net) : net[i].req \in CoverChainReqs =>
          /\ \A k \in { CoverKeys[n] : n \in 1..Len(CoverKeys) } : ~ValidSecondaryField(k)
          /\ \A j \in 1..(i-1) : net[j].req \in CoverChainReqs =>
                /\ ~ValidOgReply(net[j].reply)
                /\ ChainRank(net[j].req) < ChainRank(net[i].req)
    /\ (CoverResolved /\ cover_arg = <<>>
          /\ \E n \in 1..Len(CoverKeys) : ValidSecondaryField(CoverKeys[n])) =>
          /\ NoCoverChainRequest
          /\ cover_src \in DesktopLabels
          /\ \E n \in 1..Len(CoverKeys) :
                /\ ValidSecondaryField(CoverKeys[n])
                /\ \A m \in 1..(n-1) : ~ValidSecondaryField(CoverKeys[m])
                /\ cover_src = "desktop:" \o CoverKeys[n]
                /\ Len(cover_url) = Len(desktop[CoverKeys[n]])
                /\ \A q \in 2..Len(cover_url) :
                      cover_url[q] = desktop[CoverKeys[n]][q] \/ desktop[CoverKeys[n]][q] = "{size}"

\* C9 witness: the first Secondary field is an avatar, the second is validated
\* and returned without any request although the URL is a track page and the
\* Primary record has an avatar
C9_Witness ==
    /\ pc = "exit" /\ exit_code = 0
    /\ cover_src = "desktop:union_cover"
    /\ "album_img" \in DOMAIN desktop /\ desktop["album_img"] = ImgAvatar
    /\ "imgUrl" \in DOMAIN mobile
    /\ MixsongId(url.path) # None
    /\ NoCoverChainRequest

\* C10: with a non-empty cover override the cover is the override with {size}
\* replaced and http:// upgraded, accepted whatever its host, its label is
\* "override", and the cover chain issues no request in the whole run.
C10_OverrideBypassesChain ==
    (cover_arg # <<>> /\ pc \notin {"start", "mobile", "desktop", "cover"}
        /\ exit_code \notin {2, 3}) =>
        /\ cover_src = "override"
        /\ Len(cover_url) = Len(cover_arg)
        /\ cover_url[1] = (IF cover_arg[1] = "http://" THEN "https://" ELSE cover_arg[1])
        /\ \A q \in 2..Len(cover_arg) :
              cover_url[q] = (IF cover_arg[q] = "{size}" THEN "1000" ELSE cover_arg[q])
        /\ NoCoverChainRequest
        /\ pc \notin {"og_page", "og_share", "og_album", "og_malbum", "avatar"}

\* C10 witness: the override, on a host that is not the album server, is
\* embedded although the Secondary record had a validated cover field
C10_Witness ==
    /\ pc = "exit" /\ exit_code = 0 /\ embedded
    /\ cover_src = "override"
    /\ cover_url = << "https://", "img.example", "/", "1000", "/a.jpg" >>
    /\ ValidSecondaryField("album_img")
    /\ NoCoverChainRequest

\* extraction cannot succeed: no hash in the URL and either no track-page text
\* or a scrape that failed or found no hash
ExtractionFailed ==
    /\ pc # "start"
    /\ ~HasKey(url.frag, "hash") /\ ~HasKey(url.query, "hash")
    /\ \/ ~TrackPageText
       \/ \E i \in 1..Len(net) :
            /\ net[i].req = "scrape"
            /\ (~net[i].reply.ok \/ net[i].reply.html.hash = None)

PrimaryFailed ==
    \E i \in 1..Len(net) : net[i].req = "mobile" /\ PrimaryReplyFails(net[i].reply)

DownloadFailed ==
    \E i \in 1..Len(net) : net[i].req = "audio" /\ ~net[i].reply.ok

SecondaryFailed ==
    \E i \in 1..Len(net) : net[i].req = "desktop" /\ SecondaryReplyFails(net[i].reply)

CoverPageFailed ==
    \E i \in 1..Len(net) : net[i].req \in CoverChainReqs /\ ~net[i].reply.ok

CoverImageFailed ==
    \E i \in 1..Len(net) : net[i].req = "cover" /\ ~net[i].reply.ok

NoPageCandidate == \A i \in 1..Len(net) : net[i].req \in CoverChainReqs => ~ValidOgReply(net[i].reply)

\* the Secondary adapter failed, the Primary record holds only a stream URL
\* and the combined name "A - T", no override is given, no page scrape gave
\* an accepted image, and the run ended in success with its tags written
DegradedScenario ==
    /\ TaggedSuccess
    /\ cover_arg = <<>>
    /\ SecondaryFailed
    /\ DOMAIN mobile = {"url", "fileName"}
    /\ mobile["fileName"] = << "A", " - ", "T" >>
    /\ NoPageCandidate

\* C12 as stated: in that scenario the title is T, the artist is A, the audio
\* comes from the Primary's stream URL and the cover from the avatar step.
C12_DegradedScenario ==
    DegradedScenario =>
        /\ tags["title"] = <<"T">>
        /\ tags["artist"] = <<"A">>
        /\ mobile["url"] = StreamUrl /\ AudioAttempted
        /\ cover_src = "mobile:imgUrl"

\* C12 amended: in that scenario the title is T, the artist is "Unknown", no
\* album frame is written, the audio comes from the Primary's stream URL, and
\* the cover comes from the avatar step, which yields an empty URL, so that
\* no image is requested or embedded.
C12_DegradedScenarioArtistUnknown ==
    DegradedScenario =>
        /\ tags["title"] = <<"T">>
        /\ tags["artist"] = <<"Unknown">>
        /\ DOMAIN tags = {"title", "artist"}
        /\ mobile["url"] = StreamUrl /\ AudioAttempted
        /\ cover_src = "mobile:imgUrl"
        /\ cover_url = <<>>
        /\ ~embedded /\ ~Requested("cover")

\* C12 witness: the scenario on the URL with hash and album_id in its fragment
C12_Witness ==
    /\ DegradedScenario
    /\ HasKey(url.frag, "hash") /\ album_id = "42"
    /\ Requested("og:page") /\ Requested("og:malbum")
    /\ tags["artist"] = <<"Unknown">>

NoValidSecondaryField == \A n \in 1..Len(CoverKeys) : ~ValidSecondaryField(CoverKeys[n])

\* C13 as stated: when the Secondary record gives no accepted cover and the
\* page scraped during extraction holds an album_img value, the cover is that
\* value and no og:image page is requested.
C13_PageJsonBeforeOgImage ==
    (CoverResolved /\ cover_arg = <<>> /\ NoValidSecondaryField
        /\ page_html # <<>> /\ page_html[1].album_img = ImgGood) =>
        /\ cover_url = << "https://", "imge.kugou.com", "/stdmusic/", "1000", "/a.jpg" >>
        /\ NoCoverChainRequest

\* C14 as stated: the page at the input URL is requested for its og:image only
\* when the URL has the track-page form.
C14_OgPageOnlyForTrackPage ==
    Requested("og:page") => TrackPageText

\* the host of an image URL: the piece that follows the scheme
HostOf(u) == IF Len(u) >= 2 THEN u[2] ELSE ""

ChainLabels == DesktopLabels \cup {"page:og:image", "mobile_share:og:image", "album_page:og:image"}

\* C15 as stated: a cover returned by one of the steps before the avatar
\* fallback has the album server as its host.
C15_AcceptedCoverOnAlbumHost ==
    cover_src \in ChainLabels => HostOf(cover_url) = "imge.kugou.com"

\* the chain was run and none of its steps before the avatar gave a cover
AllStepsFailed ==
    /\ CoverResolved /\ cover_arg = <<>>
    /\ NoValidSecondaryField
    /\ NoPageCandidate

\* C16: when every step before the avatar fails, the cover is the Primary
\* avatar, normalized and accepted though it is not on the album server, under
\* the label "mobile:imgUrl", which no other case uses; without an avatar the
\* cover URL is empty, no image is requested or embedded, nothing is reported
\* as failed for the cover, and the run ends only after the audio download,
\* in success when the download succeeds.
C16_AvatarFallback ==
    /\ AllStepsFailed =>
          /\ cover_src = "mobile:imgUrl"
          /\ "imgUrl" \in DOMAIN mobile =>
                cover_url = << "https://", "singer.kugou.com", "/", "1000", "/h.jpg" >>
          /\ "imgUrl" \notin DOMAIN mobile => cover_url = <<>>
    /\ cover_src = "mobile:imgUrl" => AllStepsFailed
    /\ (AllStepsFailed /\ "imgUrl" \notin DOMAIN mobile) =>
          /\ ~Requested("cover") /\ ~embedded /\ "tag_cover" \notin warnings
          /\ pc = "exit" => (AudioAttempted /\ exit_code \in {0, 5})
          /\ (pc = "exit" /\ ~DownloadFailed) => exit_code = 0

\* C16 witness: the Secondary adapter failed, one page scrape failed, another
\* gave an avatar image, the Primary record has no avatar, and the run ended
\* in success with an empty cover URL and nothing embedded
C16_Witness ==
    /\ pc = "exit" /\ exit_code = 0
    /\ AllStepsFailed /\ SecondaryFailed /\ CoverPageFailed
    /\ \E i \in 1..Len(net) : net[i].req \in CoverChainReqs /\ net[i].reply.tag = ImgAvatar
    /\ "imgUrl" \notin DOMAIN mobile
    /\ cover_src = "mobile:imgUrl" /\ cover_url = <<>> /\ ~embedded

\* the cover URLs the run has been given so far, as given: the override, the
\* cover fields of the two records, the og:image contents of the pages fetched
RawCovers ==
    { cover_arg }
    \cup { mobile[k] : k \in DOMAIN mobile \cap {"imgUrl"} }
    \cup { desktop[k] : k \in DOMAIN desktop \cap {"album_img", "union_cover", "img", "imgUrl"} }
    \cup { net[i].reply.tag : i \in { n \in 1..Len(net) : net[n].req \in CoverChainReqs } }

NoPlaceholder(u) == \A i \in 1..Len(u) : u[i] # "{size}"

\* C17: a non-empty resolved cover URL is the normalized form of a URL the run
\* was given, holds no "{size}" placeholder and does not start with "http://";
\* normalizing it again changes nothing; and a cover accepted by a step of the
\* chain passes the album-server test in its normalized form.
C17_CoverNormalized ==
    (CoverResolved /\ cover_url # <<>>) =>
        /\ \E raw \in RawCovers : raw # <<>> /\ cover_url = _normalize_img(raw)
        /\ NoPlaceholder(cover_url)
        /\ cover_url[1] # "http://"
        /\ _normalize_img(cover_url) = cover_url
        /\ \A raw \in RawCovers :
              _normalize_img(_normalize_img(raw)) = _normalize_img(raw)
        /\ cover_src \in ChainLabels => Validated(cover_url)

\* C17 witness: a cover taken from a scraped page whose og:image content held
\* both a placeholder and the insecure scheme
C17_Witness ==
    /\ CoverResolved /\ cover_src = "album_page:og:image"
    /\ cover_url = << "https://", "imge.kugou.com", "/stdmusic/", "1000", "/a.jpg" >>
    /\ \E i \in 1..Len(net) : net[i].req = "og:album" /\ net[i].reply.tag = ImgGood

IsSeparator(x) == x = " - "

\* C18: once the tags are written, a fileName holding the separator is an
\* artist part free of separators, then the separator, then the title, so
\* that later separators stay in the title; a fileName without the separator
\* is the title as a whole.
C18_TitleAfterFirstSeparator ==
    (pc = "embed" /\ DOMAIN tags = {"title", "artist"} /\ "fileName" \in DOMAIN mobile) =>
        LET f == mobile["fileName"]
        IN  IF \E i \in 1..Len(f) : IsSeparator(f[i])
              THEN \E n \in 0..(Len(f) - 1) :
                     /\ \A j \in 1..n : ~IsSeparator(f[j])
                     /\ IsSeparator(f[n + 1])
                     /\ f = SubSeq(f, 1, n) \o << " - " >> \o tags.title
              ELSE tags.title = f

\* C18 witness: a fileName with two separators, the second kept in the title
C18_Witness ==
    /\ pc = "embed" /\ DOMAIN tags = {"title", "artist"}
    /\ mobile["fileName"] = << "A", " - ", "T", " - ", "T" >>
    /\ tags.title = << "T", " - ", "T" >>

\* the network requests main() can issue
RequestNames ==
    { "scrape", "mobile", "desktop", "og:page", "og:share", "og:album",
      "og:malbum", "audio", "cover" }

\* how many times request r was issued
Count(r) == Cardinality({ i \in 1..Len(net) : net[i].req = r })

\* at most 9 requests, none issued twice; the run is over exactly when it has
\* an exit code, which is one of the four outcomes
BoundedRun ==
    /\ \A i \in 1..Len(net) : net[i].req \in RequestNames
    /\ \A r \in RequestNames : Count(r) <= 1
    /\ Len(net) <= 9
    /\ (pc = "exit") <=> (exit_code # Running)
    /\ exit_code \in {Running, 0, 2, 3, 5}

\* C19: whatever the replies, a run issues at most 9 network requests, each
\* kind at most once (so none is retried), and reaches exactly one of the
\* outcomes 2 (extraction), 3 (Primary), 5 (download), 0 (success), after
\* which it takes no step.
C19_TerminatesWithinNineRequests ==
    /\ []BoundedRun
    /\ <>(pc = "exit")
    /\ [][pc # "exit"]_vars

\* C19 witness: a run that ended after all nine requests, the last one failing
C19_Witness ==
    /\ pc = "exit" /\ exit_code = 0
    /\ Len(net) = 9 /\ \A r \in RequestNames : Count(r) = 1
    /\ ~net[9].reply.ok

\* position of a request in the order of the steps of main()
StepRank(r) ==
    CASE r = "scrape" -> 1 [] r = "mobile" -> 2 [] r = "desktop" -> 3
      [] r = "og:page" -> 4 [] r = "og:share" -> 5 [] r = "og:album" -> 6
      [] r = "og:malbum" -> 7 [] r = "audio" -> 8 [] r = "cover" -> 9
      [] OTHER -> 0

\* the reply to request r was a success
Succeeded(r) == \E i \in 1..Len(net) : net[i].req = r /\ net[i].reply.ok

\* C20: the requests of a run follow the order of the steps; the audio is
\* requested only once the hash is known, the Primary record is held with its
\* stream URL and the cover has been resolved; the cover image is requested
\* only after the audio download succeeded and for a non-empty cover URL; tags
\* are written only after the audio download succeeded; and a failed audio
\* download is the last request, ends the run with code 5 and leaves no tag,
\* no embedded cover and no tagging report.
C20_StepsStrictlyOrdered ==
    /\ \A i, j \in 1..Len(net) : i < j => StepRank(net[i].req) < StepRank(net[j].req)
    /\ Requested("audio") =>
          /\ h # None
          /\ \E i \in 1..Len(net) :
                /\ net[i].req = "mobile" /\ net[i].reply.kind = "dict"
                /\ net[i].reply.data = mobile
          /\ Get(mobile, "url", <<>>) # <<>>
          /\ cover_src # None
    /\ Requested("cover") => (Succeeded("audio") /\ cover_url # <<>>)
    /\ (DOMAIN tags # {} \/ embedded \/ {"tag_basic", "tag_cover"} \cap warnings # {})
          => Succeeded("audio")
    /\ (Requested("audio") /\ ~Succeeded("audio")) =>
          /\ net[Len(net)].req = "audio"
          /\ pc = "exit" /\ exit_code = 5
          /\ DOMAIN tags = {} /\ ~embedded
          /\ {"tag_basic", "tag_cover"} \cap warnings = {}

\* C20 witness: a run through the page scrape, both adapters and a cover page,
\* then the audio and, last, the cover image
C20_Witness ==
    /\ pc = "exit" /\ exit_code = 0
    /\ Requested("scrape") /\ Requested("desktop") /\ Requested("og:page")
    /\ Len(net) >= 2
    /\ net[Len(net) - 1].req = "audio" /\ net[Len(net)].req = "cover"
    /\ DOMAIN tags = {"title", "artist"} /\ embedded

====
